---- MODULE Spec2Model ----
(***************************************************************************)
(* Tic-Tac-Toe (script.js): board evaluator, minimax move selector with    *)
(* alpha-beta pruning and the game session driven by DOM events and the    *)
(* delayed computer-move timer.                                            *)
(***************************************************************************)
EXTENDS Integers, Sequences, FiniteSets, TLC

VARIABLES
  board,          \* the 9 cells, index 0..8                       (script.js:20,26)
  boardUndef,     \* the array's own property board["undefined"]   (script.js:110)
  current,        \* mark to be placed by the next click           (script.js:27)
  gameOver,       \* (script.js:28)
  mode,           \* "pvp" or "ai"; equals modeEl.value            (script.js:29)
  humanMark,      \* (script.js:30)
  aiMark,         \* (script.js:31)
  markSel,        \* value of the checked input[name="mark"]       (script.js:49)
  pickerDisabled, \* disabled flag of the mark picker's inputs     (script.js:74)
  timers,         \* number of pending setTimeout(aiMove, 150)     (script.js:102)
  callOut,        \* values returned by the direct calls (SpecEval, SpecSearch)
  track,          \* TRUE in the specifications that record history
  events,         \* history: number of handlers run so far
  last,           \* history: the last handler that ran and what it placed
  sched           \* history: per pending timer, the state when it was scheduled

vars == <<board, boardUndef, current, gameOver, mode, humanMark, aiMark,
          markSel, pickerDisabled, timers, callOut, track, events, last, sched>>

\* ----- bounds of the model -----
MaxTimers == 1      \* pending delayed computer moves
MaxEvents == 4      \* handlers run in a behaviour that records history
MaxEmpty == 5       \* empty cells of the boards minimax is called on directly
MaxCalls == 2       \* direct calls of evaluateBoard on one board

\* ----- values -----
null == "null"
Marks == {"X", "O"}
Cells == 0..8
Infinity == 1000    \* stands for JavaScript's Infinity; scores are -10, 0, 10
NoOut == <<>>

other(m) == IF m = "X" THEN "O" ELSE "X"

EmptyBoard == [i \in Cells |-> null]

WINS == << <<0,1,2>>, <<3,4,5>>, <<6,7,8>>,
           <<0,3,6>>, <<1,4,7>>, <<2,5,8>>,
           <<0,4,8>>, <<2,4,6>> >>

\* ----- Board evaluation -----
\* lineWon without the test that the first cell is non-empty
lineWonNoNullTest(b, k) ==
  /\ b[WINS[k][1]] = b[WINS[k][2]]
  /\ b[WINS[k][1]] = b[WINS[k][3]]

\* line k of WINS holds three identical marks
lineWon(b, k) ==
  /\ b[WINS[k][1]] # null
  /\ b[WINS[k][1]] = b[WINS[k][2]]
  /\ b[WINS[k][1]] = b[WINS[k][3]]

\* the for-loop over WINS from line k on: index of the first won line, 0 if none
RECURSIVE firstWon(_, _)
firstWon(b, k) ==
  IF k > Len(WINS) THEN 0
  ELSE IF lineWon(b, k) THEN k ELSE firstWon(b, k + 1)

evaluateBoard(b) ==
  LET k == firstWon(b, 1) IN
  IF k # 0
  THEN [winner |-> b[WINS[k][1]], line |-> WINS[k]]
  ELSE IF \A i \in Cells : b[i] # null
       THEN [draw |-> TRUE]
       ELSE [ongoing |-> TRUE]

hasWinner(r) == "winner" \in DOMAIN r
isDraw(r) == "draw" \in DOMAIN r
isOngoing(r) == "ongoing" \in DOMAIN r

\* ----- AI (minimax) -----
Max(a, b) == IF a >= b THEN a ELSE b
Min(a, b) == IF a <= b THEN a ELSE b

\* b.map((v,i)=> v ? null : i).filter(i => i !== null): empty cells, increasing
isEmptyAt(b, i) == b[i] = null

emptyCells(b) == SelectSeq(<<0, 1, 2, 3, 4, 5, 6, 7, 8>>, LAMBDA i : isEmptyAt(b, i))

\* the trial placement and its undo around the recursive call
tryCell(b, idx, player) == [b EXCEPT ![idx] = player]

\* the undo of line 186 left out
undoCellMissing(b, idx) == b

undoCell(b, idx) == [b EXCEPT ![idx] = null]

\* the comparison that replaces best at a maximizing / minimizing node
better(player, ai, s, bestScore) ==
  IF player = ai THEN s > bestScore ELSE s < bestScore

\* prune that cuts while the window is still open
pruneOpenWindow(alpha, beta) == alpha <= beta

\* the cut-off test after each sibling
prune(alpha, beta) == beta <= alpha

\* terminalScore that scores every win +10, whoever won
terminalScoreAnyWinner(result, ai) ==
  IF hasWinner(result) THEN 10 ELSE 0

\* the score of a finished board (winner or draw)
terminalScore(result, ai) ==
  IF hasWinner(result)
  THEN IF result.winner = ai THEN 10 ELSE -10
  ELSE 0

\* minimax(b, player, alpha, beta) with the global aiMark passed as ai.
\* The result carries, besides score and index, the array b as the call leaves
\* it, and two reports on the call: restored (every trial placement below was
\* undone before the next sibling was tried: the array after line 186 equals
\* the array before line 184) and cut (some loop below ended at the break of
\* line 197 with cells left to try).
RECURSIVE minimax(_, _, _, _, _)
RECURSIVE minimaxLoop(_, _, _, _, _, _, _, _)

minimax(b, player, alpha, beta, ai) ==
  LET result == evaluateBoard(b) IN
  IF hasWinner(result) \/ isDraw(result)
  THEN [score |-> terminalScore(result, ai), b |-> b,
        restored |-> TRUE, cut |-> FALSE]
  ELSE LET empty == emptyCells(b)
           best == [score |-> IF player = ai THEN -Infinity ELSE Infinity,
                    index |-> empty[1], restored |-> TRUE, cut |-> FALSE]
       IN minimaxLoop(b, player, ai, empty, 1, best, alpha, beta)

\* the for-loop over empty, from its k-th element on
minimaxLoop(b, player, ai, empty, k, best, alpha, beta) ==
  IF k > Len(empty)
  THEN [score |-> best.score, index |-> best.index, b |-> b,
        restored |-> best.restored, cut |-> best.cut]
  ELSE LET idx == empty[k]
           next == minimax(tryCell(b, idx, player), other(player), alpha, beta, ai)
           b2 == undoCell(next.b, idx)
           ok == best.restored /\ next.restored /\ b2 = b
           cut == best.cut \/ next.cut
           best2 == IF better(player, ai, next.score, best.score)
                    THEN [score |-> next.score, index |-> idx,
                          restored |-> ok, cut |-> cut]
                    ELSE [best EXCEPT !.restored = ok, !.cut = cut]
           alpha2 == IF player = ai THEN Max(alpha, next.score) ELSE alpha
           beta2 == IF player = ai THEN beta ELSE Min(beta, next.score)
       IN IF prune(alpha2, beta2)
          THEN [score |-> best2.score, index |-> best2.index, b |-> b2,
                restored |-> ok, cut |-> cut \/ k < Len(empty)]
          ELSE minimaxLoop(b2, player, ai, empty, k + 1, best2, alpha2, beta2)

\* board.filter(Boolean).length
countMarks(b) == Cardinality({i \in Cells : b[i] # null})

\* number of cells of b holding mark m
countOf(b, m) == Cardinality({i \in Cells : b[i] = m})

\* the preference order with the corners before the center
openingOrderCornersFirst == <<0, 2, 6, 8, 4, 1, 3, 5, 7>>

openingOrder == <<4, 0, 2, 6, 8, 1, 3, 5, 7>>

\* opening that takes the head of the order without testing the cell
openingUntested(b) == [index |-> openingOrder[1]]

\* [4,0,2,6,8,1,3,5,7].find(i => !board[i]); a record without index when none
opening(b) ==
  LET free == {k \in 1..Len(openingOrder) : b[openingOrder[k]] = null} IN
  IF free = {} THEN [none |-> TRUE]
  ELSE [index |-> openingOrder[CHOOSE k \in free : \A j \in free : k <= j]]

\* selectMove that takes the opening order's first empty cell on every board
selectMoveOpeningOnly(b, ai) ==
  LET o == opening(b) IN
  IF "index" \in DOMAIN o
  THEN [index |-> o.index, b |-> b, searched |-> FALSE]
  ELSE [b |-> b, searched |-> FALSE]

\* what aiMove hands to placeMark: index (absent when undefined) and the array
\* as the selector leaves it
selectMove(b, ai) ==
  IF countMarks(b) <= 1
  THEN LET o == opening(b) IN
       IF "index" \in DOMAIN o
       THEN [index |-> o.index, b |-> b, searched |-> FALSE]
       ELSE [b |-> b, searched |-> FALSE]
  ELSE LET r == minimax(b, ai, -Infinity, Infinity, ai) IN
       IF "index" \in DOMAIN r
       THEN [index |-> r.index, b |-> r.b, searched |-> TRUE]
       ELSE [b |-> r.b, searched |-> TRUE]

\* ----- session state as a record, for composing handlers -----
\* placeMark(idx, mark) on the array
placeMark(b, idx, mark) == [b EXCEPT ![idx] = mark]

\* handleEndIfAny that never reports the end
handleEndIfAnyNever(result) == FALSE

\* handleEndIfAny that reports a winner but not a draw
handleEndIfAnyWinnerOnly(result) == hasWinner(result)

\* handleEndIfAny(result): TRUE when the game ended
handleEndIfAny(result) == hasWinner(result) \/ isDraw(result)

\* aiMove() run on session state
\* s = [board, boardUndef, current, gameOver, aiMark, placed, searched];
\* placed and searched report the cell handed to placeMark and whether minimax ran
aiMove(s) ==
  LET sel == selectMove(s.board, s.aiMark) IN
  IF "index" \notin DOMAIN sel
  THEN \* placeMark(undefined, aiMark): board[undefined] = mark, then
       \* cells[undefined].textContent throws and the handler ends
       [s EXCEPT !.board = sel.b, !.boardUndef = s.aiMark,
                 !.placed = {}, !.searched = sel.searched]
  ELSE LET b1 == placeMark(sel.b, sel.index, s.aiMark)
           result == evaluateBoard(b1)
       IN IF handleEndIfAny(result)
          THEN [s EXCEPT !.board = b1, !.gameOver = TRUE,
                         !.placed = {sel.index}, !.searched = sel.searched]
          ELSE [s EXCEPT !.board = b1, !.current = other(s.current),
                         !.placed = {sel.index}, !.searched = sel.searched]

\* init() with modeEl.value = m and the checked mark = sel
init(m, sel) ==
  LET s0 == [board |-> EmptyBoard, boardUndef |-> null, current |-> "X",
             gameOver |-> FALSE, aiMark |-> other(sel),
             placed |-> {}, searched |-> FALSE]
  IN IF m = "ai" /\ sel = "O" THEN aiMove(s0) ELSE s0

session == [board |-> board, boardUndef |-> boardUndef, current |-> current,
            gameOver |-> gameOver, aiMark |-> aiMark,
            placed |-> {}, searched |-> FALSE]

\* history record of a handler: op, the cells it marked, the mark, minimax ran
lastOf(op, s) ==
  [op |-> op, placed |-> s.placed, mark |-> s.aiMark, searched |-> s.searched]

NoHist == [op |-> "none", placed |-> {}, mark |-> null, searched |-> FALSE]

\* one more handler has run (counted only when history is recorded)
Tick ==
  /\ track => events < MaxEvents
  /\ events' = IF track THEN events + 1 ELSE events
  /\ track' = track

setSession(op, s) ==
  /\ board' = s.board
  /\ boardUndef' = s.boardUndef
  /\ current' = s.current
  /\ gameOver' = s.gameOver
  /\ aiMark' = s.aiMark
  /\ last' = IF track THEN lastOf(op, s) ELSE last

\* the state a timer is scheduled in
snapshot(b, c, m, a) == [board |-> b, current |-> c, mode |-> m, aiMark |-> a]

\* ----- the session's handlers -----
InitSession ==
  /\ mode \in {"pvp", "ai"}
  /\ markSel \in Marks
  /\ pickerDisabled = FALSE
  /\ humanMark = markSel
  /\ LET s == init(mode, markSel) IN
       /\ board = s.board
       /\ boardUndef = s.boardUndef
       /\ current = s.current
       /\ gameOver = s.gameOver
       /\ aiMark = s.aiMark
       /\ last = IF track THEN lastOf("init", s) ELSE NoHist
  /\ timers = 0
  /\ sched = <<>>
  /\ events = 0
  /\ callOut = NoOut

Init == track = FALSE /\ InitSession

InitH == track = TRUE /\ InitSession

\* resetBtn click: init()
Reset ==
  /\ Tick
  /\ setSession("init", init(mode, markSel))
  /\ humanMark' = markSel
  /\ UNCHANGED <<mode, markSel, pickerDisabled, timers, callOut, sched>>

\* modeEl change to value m
ModeChange(m) ==
  /\ m # mode
  /\ Tick
  /\ pickerDisabled' = (m # "ai")
  /\ mode' = m
  /\ setSession("init", init(m, markSel))
  /\ humanMark' = markSel
  /\ UNCHANGED <<markSel, timers, callOut, sched>>

\* markPickerEl change: the radio with value m becomes the checked one
MarkChange(m) ==
  /\ ~pickerDisabled
  /\ m # markSel
  /\ Tick
  /\ markSel' = m
  /\ IF mode = "ai"
     THEN /\ setSession("init", init(mode, m))
          /\ humanMark' = m
     ELSE UNCHANGED <<board, boardUndef, current, gameOver, aiMark, humanMark, last>>
  /\ UNCHANGED <<mode, pickerDisabled, timers, callOut, sched>>

\* the test of line 87 left out
alreadyFilledNever(idx) == FALSE

\* if (board[idx]) return; // already filled
alreadyFilled(idx) == board[idx] # null

\* onCellClick with e.target inside the cell with data-index idx
onCellClick(idx) ==
  /\ ~gameOver
  /\ ~alreadyFilled(idx)
  /\ Tick
  /\ LET b1 == placeMark(board, idx, current)
         result == evaluateBoard(b1)
     IN /\ board' = b1
        /\ last' = IF track
                   THEN [op |-> "click", placed |-> {idx}, mark |-> current,
                         searched |-> FALSE]
                   ELSE last
        /\ IF handleEndIfAny(result)
           THEN /\ gameOver' = TRUE
                /\ UNCHANGED <<current, timers, sched>>
           ELSE /\ current' = other(current)
                /\ gameOver' = gameOver
                /\ IF mode = "ai" /\ other(current) = aiMark /\ ~gameOver
                   THEN /\ timers < MaxTimers
                        /\ timers' = timers + 1
                        /\ sched' = IF track
                             THEN Append(sched,
                                    snapshot(b1, other(current), mode, aiMark))
                             ELSE sched
                   ELSE UNCHANGED <<timers, sched>>
  /\ UNCHANGED <<boardUndef, mode, humanMark, aiMark, markSel, pickerDisabled, callOut>>

\* onCellClick that returns early: game over, or the cell already filled
onCellClickIgnored(idx) ==
  /\ gameOver \/ alreadyFilled(idx)
  /\ UNCHANGED vars

\* onCellClick that returns early: e.target is outside every cell
onCellClickOutside == UNCHANGED vars

\* the timer set by setTimeout(aiMove, 150) fires
TimerFires ==
  /\ timers > 0
  /\ timers' = timers - 1
  /\ Tick
  /\ sched' = IF track THEN Tail(sched) ELSE sched
  /\ setSession("aiMove", aiMove(session))
  /\ UNCHANGED <<mode, humanMark, markSel, pickerDisabled, callOut>>

Next ==
  \/ Reset
  \/ \E m \in {"pvp", "ai"} : ModeChange(m)
  \/ \E m \in Marks : MarkChange(m)
  \/ \E idx \in Cells : onCellClick(idx)
  \/ \E idx \in Cells : onCellClickIgnored(idx)
  \/ onCellClickOutside
  \/ TimerFires

Spec == Init /\ [][Next]_vars

\* the same handlers, with the history variables recorded, for MaxEvents handlers
SpecH == InitH /\ [][Next]_vars

\* ----- a game against the computer -----
\* Human-vs-computer mode with a user who clicks an empty cell only on the
\* human's turn and after the delayed computer move has run.
InitGame == Init /\ mode = "ai"

OpponentMove(idx) ==
  /\ timers = 0
  /\ current = humanMark
  /\ onCellClick(idx)

ComputerMove == TimerFires

NextGame ==
  \/ \E idx \in Cells : OpponentMove(idx)
  \/ ComputerMove

SpecGame == InitGame /\ [][NextGame]_vars

\* ----- legal play -----
\* Two-player mode, cell clicks only: from the empty board, X first, one
\* empty cell marked per move, no move after the game has ended.
InitLegal == Init /\ mode = "pvp"

LegalMove(idx) == onCellClick(idx)

NextLegal == \E idx \in Cells : LegalMove(idx)

SpecLegal == InitLegal /\ [][NextLegal]_vars

\* ----- direct calls of the two functions -----
AllBoards == [Cells -> {null, "X", "O"}]

\* the variables a direct call does not use
idle ==
  /\ boardUndef = null
  /\ gameOver = FALSE
  /\ mode = "pvp"
  /\ markSel = "X"
  /\ pickerDisabled = FALSE
  /\ timers = 0
  /\ track = FALSE
  /\ events = 0
  /\ last = NoHist
  /\ sched = <<>>
  /\ callOut = NoOut

InitEval ==
  /\ board \in AllBoards
  /\ current = "X"
  /\ humanMark = "X"
  /\ aiMark = "O"
  /\ idle

\* an evaluateBoard that clears the cells of a won line in the array it is given
evaluateCallClearing ==
  /\ Len(callOut) < MaxCalls
  /\ callOut' = Append(callOut, evaluateBoard(board))
  /\ board' = IF hasWinner(evaluateBoard(board))
              THEN [i \in Cells |->
                      IF \E j \in 1..3 : evaluateBoard(board).line[j] = i
                      THEN null ELSE board[i]]
              ELSE board
  /\ UNCHANGED <<boardUndef, current, gameOver, mode, humanMark, aiMark,
                 markSel, pickerDisabled, timers, track, events, last, sched>>

\* evaluateBoard(board), called again and again on the same array
evaluateCall ==
  /\ Len(callOut) < MaxCalls
  /\ callOut' = Append(callOut, evaluateBoard(board))
  /\ UNCHANGED <<board, boardUndef, current, gameOver, mode, humanMark, aiMark,
                 markSel, pickerDisabled, timers, track, events, last, sched>>

SpecEval == InitEval /\ [][evaluateCall]_vars

InitSearch ==
  /\ board \in {b \in AllBoards : countMarks(b) >= 9 - MaxEmpty}
  /\ current \in Marks      \* the player argument
  /\ aiMark \in Marks
  /\ humanMark = other(aiMark)
  /\ idle

\* minimax(board, current, -Infinity, Infinity); the array is left as the call
\* leaves it
minimaxCall ==
  /\ callOut = NoOut
  /\ LET r == minimax(board, current, -Infinity, Infinity, aiMark) IN
       /\ callOut' = <<[r EXCEPT !.b = board]>>
       /\ board' = r.b
  /\ UNCHANGED <<boardUndef, current, gameOver, mode, humanMark, aiMark,
                 markSel, pickerDisabled, timers, track, events, last, sched>>

SpecSearch == InitSearch /\ [][minimaxCall]_vars

\* minimax called for the computer playing O, on the boards that hold two X
\* and two O, O to move
InitScenario ==
  /\ board \in {b \in AllBoards : countOf(b, "X") = 2 /\ countOf(b, "O") = 2}
  /\ current = "O"
  /\ aiMark = "O"
  /\ humanMark = "X"
  /\ idle

SpecScenario == InitScenario /\ [][minimaxCall]_vars

\* ---------------------------------------------------------------------
\* Claims
\* ---------------------------------------------------------------------
Outcome == evaluateBoard(board)

\* C1 - Unbeatability: in a game from the empty board, X first, where the
\* computer (as X or as O) plays every move through the selector and the
\* opponent marks any empty cell on each of its turns, evaluateBoard never
\* reports the opponent's mark as winner, and a finished game is a computer
\* win or a draw.
C1_Unbeatable ==
  /\ hasWinner(Outcome) => Outcome.winner = aiMark
  /\ gameOver => (hasWinner(Outcome) /\ Outcome.winner = aiMark) \/ isDraw(Outcome)
  /\ countOf(board, "X") - countOf(board, "O") \in {0, 1}

\* a finished game that the computer, playing O, has won by a searched move
C1_Witness ==
  /\ gameOver
  /\ aiMark = "O"
  /\ hasWinner(Outcome)
  /\ Outcome.winner = "O"
  /\ countMarks(board) >= 6

\* C2 - Whenever the board is Ongoing and the computer is to move (a delayed
\* move is pending, or it is the computer's turn in human-vs-computer mode),
\* the index the selector returns is defined, lies in 0..8 and names an
\* empty cell.
C2_SelectorPicksEmptyCell ==
  (isOngoing(Outcome) /\ (timers > 0 \/ (mode = "ai" /\ current = aiMark))) =>
    LET sel == selectMove(board, aiMark) IN
      /\ "index" \in DOMAIN sel
      /\ sel.index \in 0..8
      /\ board[sel.index] = null

\* a delayed computer move is pending on an Ongoing board that needs the search
C2_Witness ==
  /\ timers > 0
  /\ isOngoing(Outcome)
  /\ countMarks(board) = 5
  /\ current = aiMark

\* C3 - For each of the 3^9 boards evaluateBoard returns Won(mark, line) for
\* the first completed Line in the order rows, columns, diagonals, Draw for a
\* full board without a completed Line and Ongoing otherwise; a full board
\* with a completed Line is Won.
C3_Lines == << <<0,1,2>>, <<3,4,5>>, <<6,7,8>>, <<0,3,6>>, <<1,4,7>>, <<2,5,8>>,
              <<0,4,8>>, <<2,4,6>> >>

C3_Completed(b) ==
  {k \in 1..8 : /\ b[C3_Lines[k][1]] \in Marks
                /\ b[C3_Lines[k][2]] = b[C3_Lines[k][1]]
                /\ b[C3_Lines[k][3]] = b[C3_Lines[k][1]]}

C3_EvaluatorCorrect ==
  \A n \in 1..Len(callOut) :
    LET done == C3_Completed(board)
        full == \A i \in 0..8 : board[i] \in Marks
    IN IF done # {}
       THEN LET k == CHOOSE k \in done : \A j \in done : k <= j IN
            callOut[n] = [winner |-> board[C3_Lines[k][1]], line |-> C3_Lines[k]]
       ELSE IF full THEN callOut[n] = [draw |-> TRUE]
                    ELSE callOut[n] = [ongoing |-> TRUE]

\* evaluateBoard has run on a full board with two completed Lines and
\* reported the first of them
C3_Witness ==
  /\ Len(callOut) >= 1
  /\ \A i \in 0..8 : board[i] \in Marks
  /\ C3_Completed(board) = {3, 4}
  /\ callOut[1].line = <<6, 7, 8>>

\* C4 - aiMove is invoked only when the mode is human-vs-computer, current is
\* the computer's mark, gameOver is false and the board is Ongoing with an
\* empty cell, for every ordering of clicks, reset, mode change, mark change
\* and timer firing. (init's own call of aiMove is made in such a state by
\* construction: lines 26-31 and 41; the delayed call is the step below.)
C4_AiMoveOnlyOnComputerTurn ==
  [][timers' < timers =>
       /\ mode = "ai"
       /\ current = aiMark
       /\ ~gameOver
       /\ isOngoing(Outcome)
       /\ \E i \in Cells : board[i] = null]_vars

\* C5 - When the delayed aiMove runs, board, current, mode and aiMark are
\* what they were when onCellClick scheduled it, and the cell it marks is the
\* cell aiMove would have marked with no delay.
C5_DelayIsCosmetic ==
  [][timers' < timers =>
       LET s == Head(sched) IN
         /\ s = snapshot(board, current, mode, aiMark)
         /\ last'.placed = {selectMove(s.board, s.aiMark).index}]_vars

\* C6 - Within one game any two consecutively placed marks differ, and the
\* number of X on the board minus the number of O is 0 or 1.
C6_MarksAlternate ==
  [][/\ (/\ events' > events
          /\ last'.op \in {"click", "aiMove"}
          /\ last'.placed # {}
          /\ last.placed # {}) => last'.mark # last.mark
     /\ countOf(board', "X") - countOf(board', "O") \in {0, 1}]_vars

\* C7 - Write-once cells: a step of onCellClick or of the delayed aiMove
\* leaves every non-empty cell of the board with the mark it holds.
C7_WriteOnce ==
  [][(TimerFires \/ \E idx \in Cells : onCellClick(idx)) =>
       \A i \in Cells : board[i] # null => board'[i] = board[i]]_vars

\* a game in human-vs-computer mode where clicks and computer moves have
\* each placed two marks
C7_Witness ==
  /\ mode = "ai"
  /\ humanMark = "X"
  /\ timers = 0
  /\ ~gameOver
  /\ current = "X"
  /\ countOf(board, "X") = 2
  /\ countOf(board, "O") = 2

\* C8 - Opening shortcut: when the computer moves on a board holding 0 or 1
\* marks no search is run and the cell it marks is the first empty cell in
\* the order 4,0,2,6,8,1,3,5,7: cell 4 on the empty board, cell 0 when the
\* only mark is at cell 4, cell 4 when the only mark is elsewhere.
C8_Order == <<4, 0, 2, 6, 8, 1, 3, 5, 7>>

C8_FirstEmpty(b) ==
  C8_Order[CHOOSE k \in 1..9 :
             /\ b[C8_Order[k]] = null
             /\ \A j \in 1..(k - 1) : b[C8_Order[j]] # null]

C8_OpeningShortcut ==
  [][/\ (timers' < timers /\ countMarks(board) <= 1) =>
          /\ ~selectMove(board, aiMark).searched
          /\ board' = [board EXCEPT ![C8_FirstEmpty(board)] = aiMark]
          /\ countMarks(board) = 0 => board'[4] = aiMark
          /\ (countMarks(board) = 1 /\ board[4] # null) => board'[0] = aiMark
          /\ (countMarks(board) = 1 /\ board[4] = null) => board'[4] = aiMark
     /\ ((Reset \/ (\E m \in {"pvp", "ai"} : ModeChange(m))
                 \/ (\E m \in Marks : MarkChange(m)))
         /\ mode' = "ai" /\ humanMark' = "O") =>
          board' = [EmptyBoard EXCEPT ![4] = "X"]]_vars

\* the human opened at the center and the delayed computer move answered at
\* cell 0
C8_Witness ==
  /\ mode = "ai"
  /\ humanMark = "X"
  /\ timers = 0
  /\ current = "X"
  /\ board = [EmptyBoard EXCEPT ![4] = "X", ![0] = "O"]

\* C9 - After minimax returns, pruned or not, every cell holds the value it
\* held before the call, and at every level of the recursion the trial
\* placement was undone before the next sibling cell was tried.
C9_SearchRestoresBoard ==
  \A n \in 1..Len(callOut) :
    /\ board = callOut[n].b
    /\ callOut[n].restored

\* a search that went through the loop on a board with MaxEmpty empty cells
\* and stopped some loop early at the break
C9_Witness ==
  /\ Len(callOut) = 1
  /\ "index" \in DOMAIN callOut[1]
  /\ callOut[1].cut
  /\ countMarks(board) = 9 - MaxEmpty

RECURSIVE playNeverLost(_, _, _)
playNeverLost(b, player, ai) ==
  LET r == evaluateBoard(b) IN
  IF hasWinner(r) THEN r.winner = ai
  ELSE IF isDraw(r) THEN TRUE
  ELSE IF player = ai
       THEN LET sel == selectMove(b, ai) IN
            /\ "index" \in DOMAIN sel
            /\ playNeverLost(placeMark(sel.b, sel.index, ai), other(ai), ai)
       ELSE \A i \in Cells :
              b[i] = null => playNeverLost(placeMark(b, i, player), ai, ai)

\* C11 - Blocking scenario: on the board with X at 0 and 4, O at 1 and 3,
\* the computer playing O and O to move, the search returns index 8, and
\* every continuation in which O keeps playing the selector's move ends
\* without an X win.
C11_Board ==
  [i \in Cells |-> IF i \in {0, 4} THEN "X" ELSE IF i \in {1, 3} THEN "O" ELSE null]

C11_Called ==
  /\ Len(callOut) = 1
  /\ callOut[1].b = C11_Board
  /\ current = "O"
  /\ aiMark = "O"

C11_BlocksDiagonal ==
  C11_Called =>
    /\ "index" \in DOMAIN callOut[1]
    /\ callOut[1].index = 8
    /\ board = C11_Board
    /\ playNeverLost(placeMark(board, callOut[1].index, "O"), "X", "O")

\* minimax has been called on the scenario's board for O and has answered
C11_Witness ==
  /\ C11_Called
  /\ callOut[1].score = 0
  /\ callOut[1].index = 8

\* C12 - Under legal play no reachable board holds a completed Line of X
\* and a completed Line of O at the same time.
C12_HasLine(b, m) ==
  \E k \in 1..8 : \A j \in 1..3 : b[C3_Lines[k][j]] = m

C12_NoDoubleWinner == ~(C12_HasLine(board, "X") /\ C12_HasLine(board, "O"))

\* a legal game that O has won
C12_Witness ==
  /\ gameOver
  /\ C12_HasLine(board, "O")
  /\ countOf(board, "X") = countOf(board, "O")

\* C13 (as claimed) - Under legal play no reachable board has more than one
\* completed Line, so the scan order of evaluateBoard never affects the line
\* it reports.
C13_AtMostOneLine == Cardinality(C3_Completed(board)) <= 1

\* C13 (amended) - Under legal play no reachable board has more than two
\* completed Lines; two completed Lines hold the same mark and share a cell,
\* and evaluateBoard then reports that mark with the first of the two Lines
\* in its scan order: the order affects the line reported, never the winner.
C13_AtMostTwoLinesOneWinner ==
  LET done == C3_Completed(board) IN
    /\ Cardinality(done) <= 2
    /\ \A k \in done, l \in done :
         /\ board[C3_Lines[k][1]] = board[C3_Lines[l][1]]
         /\ \E i \in 1..3, j \in 1..3 : C3_Lines[k][i] = C3_Lines[l][j]
    /\ done # {} =>
         /\ hasWinner(Outcome)
         /\ \A k \in done : Outcome.winner = board[C3_Lines[k][1]]
         /\ \E k \in done : /\ Outcome.line = C3_Lines[k]
                             /\ \A l \in done : k <= l

\* a legal game whose last move completed two Lines at once
C13_Witness ==
  /\ gameOver
  /\ Cardinality(C3_Completed(board)) = 2
  /\ hasWinner(Outcome)

\* C14 (as claimed) - In a game the computer plays through the selector,
\* whenever it is the computer's turn and some empty cell would complete a
\* Line of the computer's mark at once, the selector returns such a cell.
C14_WinsAt(b, i, m) ==
  /\ b[i] = null
  /\ hasWinner(evaluateBoard(placeMark(b, i, m)))

C14_ComputerToMove == /\ timers > 0 /\ ~gameOver /\ current = aiMark

C14_FastestWin ==
  (C14_ComputerToMove /\ \E i \in Cells : C14_WinsAt(board, i, aiMark)) =>
    LET sel == selectMove(board, aiMark) IN
      /\ "index" \in DOMAIN sel
      /\ C14_WinsAt(board, sel.index, aiMark)

\* TRUE when the player ai, moving through the selector, wins the game from
\* board b against every play of the opponent
RECURSIVE playAlwaysWon(_, _, _)
playAlwaysWon(b, player, ai) ==
  LET r == evaluateBoard(b) IN
  IF hasWinner(r) THEN r.winner = ai
  ELSE IF isDraw(r) THEN FALSE
  ELSE IF player = ai
       THEN LET sel == selectMove(b, ai) IN
            /\ "index" \in DOMAIN sel
            /\ playAlwaysWon(placeMark(sel.b, sel.index, ai), other(ai), ai)
       ELSE \A i \in Cells :
              b[i] = null => playAlwaysWon(placeMark(b, i, player), ai, ai)

\* C14 (amended) - Whenever it is the computer's turn and some empty cell
\* would complete a Line of its mark at once, the selector returns an empty
\* cell from which the computer wins: either that cell completes a Line at
\* once, or the computer, moving through the selector, wins against every
\* play of the opponent. It may pass over the immediate win.
C14_WinNotLost ==
  (C14_ComputerToMove /\ \E i \in Cells : C14_WinsAt(board, i, aiMark)) =>
    LET sel == selectMove(board, aiMark) IN
      /\ "index" \in DOMAIN sel
      /\ board[sel.index] = null
      /\ playAlwaysWon(placeMark(board, sel.index, aiMark), humanMark, aiMark)

\* the computer to move with an immediate win that the selector passes over
C14_Witness ==
  /\ C14_ComputerToMove
  /\ \E i \in Cells : C14_WinsAt(board, i, aiMark)
  /\ ~C14_WinsAt(board, selectMove(board, aiMark).index, aiMark)

\* The unpruned search of the claim: empty cells in increasing index order,
\* finished boards scored +10 / -10 / 0, the first cell with a strictly
\* better score kept (higher for the computer, lower for the opponent).
RECURSIVE C15_Unpruned(_, _, _)
C15_Unpruned(b, player, ai) ==
  LET r == evaluateBoard(b)
      RECURSIVE scan(_, _)
      scan(i, best) ==
        IF i > 8 THEN best
        ELSE IF b[i] # null THEN scan(i + 1, best)
        ELSE LET s == C15_Unpruned([b EXCEPT ![i] = player], other(player), ai).score
             IN IF (player = ai /\ s > best.score) \/ (player # ai /\ s < best.score)
                THEN scan(i + 1, [score |-> s, index |-> i])
                ELSE scan(i + 1, best)
  IN IF hasWinner(r) THEN [score |-> IF r.winner = ai THEN 10 ELSE -10]
     ELSE IF isDraw(r) THEN [score |-> 0]
     ELSE scan(0, [score |-> IF player = ai THEN -Infinity ELSE Infinity])

C15_Called ==
  /\ Len(callOut) = 1
  /\ isOngoing(evaluateBoard(callOut[1].b))
  /\ current = aiMark

\* C15 - For every Ongoing board with the computer to move,
\* minimax(board, aiMark, -Infinity, Infinity) returns the score (one of
\* -10, 0, +10) and the index that the unpruned search returns.
C15_PruningKeepsResult ==
  C15_Called =>
    LET ref == C15_Unpruned(callOut[1].b, current, aiMark) IN
      /\ callOut[1].score \in {-10, 0, 10}
      /\ callOut[1].score = ref.score
      /\ "index" \in DOMAIN callOut[1]
      /\ callOut[1].index = ref.index

\* a call in which a cut-off skipped siblings
C15_Witness ==
  /\ C15_Called
  /\ callOut[1].cut
  /\ countMarks(callOut[1].b) = 9 - MaxEmpty

\* a step in which init runs: reset, mode change, mark change in "ai" mode
C16_InitStep ==
  \/ Reset
  \/ \E m \in {"pvp", "ai"} : ModeChange(m)
  \/ mode = "ai" /\ \E m \in Marks : MarkChange(m)

\* C16 - X always starts: after every run of init the board is empty or
\* holds only the computer's X (in "ai" mode with the human playing O: X on
\* cell 4, current = O, gameOver false), and the first mark placed on an
\* empty board is X, for every ordering of init with clicks and a pending
\* delayed computer move.
C16_XAlwaysStarts ==
  [][/\ C16_InitStep =>
          /\ \/ board' = EmptyBoard
             \/ board' = [EmptyBoard EXCEPT ![4] = "X"] /\ aiMark' = "X"
          /\ (mode' = "ai" /\ humanMark' = "O") =>
                /\ board' = [EmptyBoard EXCEPT ![4] = "X"]
                /\ current' = "O"
                /\ ~gameOver'
     /\ (board = EmptyBoard /\ board' # EmptyBoard) =>
          countOf(board', "O") = 0]_vars

\* C17 - Between handlers (after init, after each onCellClick, after each
\* aiMove) gameOver is true exactly when evaluateBoard(board) reports a
\* winner or a draw.
C17_GameOverIffEnded ==
  gameOver <=> (hasWinner(Outcome) \/ isDraw(Outcome))

\* a game that ended in a draw
C17_Witness ==
  /\ gameOver
  /\ isDraw(Outcome)
  /\ countMarks(board) = 9

\* C18 - Once gameOver is true, a cell click or a delayed aiMove changes no
\* cell 0..8 of the board and does not toggle current; gameOver stays true
\* until init runs.
C18_FrozenAfterEnd ==
  [][(/\ gameOver
      /\ \/ TimerFires
         \/ \E idx \in Cells : onCellClick(idx)
         \/ \E idx \in Cells : onCellClickIgnored(idx)
         \/ onCellClickOutside) =>
       /\ board' = board
       /\ current' = current
       /\ gameOver']_vars

\* a delayed aiMove has run on the board of a finished game
C18_Witness ==
  /\ gameOver
  /\ boardUndef # null
  /\ timers = 0

\* C19 - In "ai" mode every mark a cell click places is humanMark and every
\* mark the delayed aiMove places is aiMark; a click while current is the
\* computer's mark places no mark.
C19_EachSidePlacesOwnMark ==
  [][mode = "ai" =>
       /\ (\E idx \in Cells : onCellClick(idx)) =>
            /\ \A i \in Cells : board'[i] # board[i] => board'[i] = humanMark
            /\ current = aiMark => board' = board
       /\ TimerFires =>
            \A i \in Cells : board'[i] # board[i] => board'[i] = aiMark]_vars

\* C20 - In "ai" mode, whenever the game is not over and current is the
\* computer's mark, a delayed computer move is pending (so that, once the
\* timer fires, the computer's mark is placed with no further click).
C20_ComputerMovePending ==
  (mode = "ai" /\ ~gameOver /\ current = aiMark) => timers > 0

====
